---- MODULE Spec2Model ----
(***************************************************************************)
(* Minimal Arithmetic Noise Padding (MANP) analysis of the HLFHE dialect:  *)
(* the width-extending APInt helpers, the per-operation rules getSqMANP    *)
(* and the visitOperation step of MANPAnalysis, run over a function body   *)
(* in program order.                                                       *)
(***************************************************************************)
EXTENDS Integers, Sequences, FiniteSets, TLC

VARIABLES
    vals,      \* the SSA values of the function: block arguments, then op results
    lattice,   \* lattice element of each value (MANPLatticeValue)
    attr,      \* the "MANP" attribute of each operation
    diags,     \* diagnostics emitted so far (errors and remarks)
    status,    \* "running" or "aborted"
    debug,     \* MANPPass::debug
    ndebug,    \* TRUE when the build compiles assert() out (NDEBUG)
    call,      \* a single call of a helper function: its arguments and result
    known,     \* LatticeElement::knownValue of each value
    solver     \* the ForwardDataFlowSolver that analysis.run(func) drives

vars ==
    <<vals, lattice, attr, diags, status, debug, ndebug, call, known, solver>>

(***************************************************************************)
(* Bounds of the model.                                                    *)
(***************************************************************************)
MaxOps == 3        \* operations in the function body
MaxCsts == 1       \* constant operations among them
MaxOthers == 1     \* operations of other dialects among them
MaxBits == 12      \* widest operand bound an operation is still applied to
MaxArgBits == 5    \* widest argument of a helper call
MaxBodyOps == 2    \* operations in the body of a function analysed to the end

\* the helper calls on pairs draw both operands from the values of at most
\* MaxPairBits bits
MaxPairBits == 3

\* the largest element count handed to the width computation
MaxCount == 40

\* the widths handed to the target-width computations lie within MaxNear of
\* 0, of 2^31 and of the largest unsigned value
MaxNear == 2

(***************************************************************************)
(* llvm::APInt: a bit width and an unsigned value below 2^width.  Every    *)
(* arithmetic operation keeps the width of its operands and wraps.         *)
(***************************************************************************)
Pow2(n) == 2 ^ n

\* the low numBits bits of val; the integers of the model stay below 2^31, so
\* a width of 31 bits or more holds them unchanged
Truncate(val, numBits) == IF numBits >= 31 THEN val ELSE val % Pow2(numBits)

APInt(numBits, val) == [w |-> numBits, v |-> Truncate(val, numBits)]

getMaxValue(numBits) == APInt(numBits, Pow2(numBits) - 1)

zext(a, width) == [w |-> width, v |-> a.v]

APAdd(a, b) == APInt(a.w, a.v + b.v)

APMul(a, b) == APInt(a.w, a.v * b.v)

APShl(a, s) == APInt(a.w, a.v * Pow2(s))

ult(a, b) == a.v < b.v

Max(a, b) == IF a >= b THEN a ELSE b

Min(a, b) == IF a <= b THEN a ELSE b

\* largest r in lo..hi with r * r <= n
RECURSIVE FloorSqrt(_, _, _)
FloorSqrt(n, lo, hi) ==
    IF lo >= hi THEN lo
    ELSE LET mid == (lo + hi + 1) \div 2
         IN  IF mid * mid <= n THEN FloorSqrt(n, mid, hi)
                               ELSE FloorSqrt(n, lo, mid - 1)

\* APInt::sqrt: the square root rounded to the nearest integer, in the
\* width of its argument
APsqrt(a) ==
    LET f == FloorSqrt(a.v, 0, Pow2(Min((a.w + 1) \div 2, 15)))
    IN  APInt(a.w, IF a.v > f * f + f THEN f + 1 ELSE f)


(***************************************************************************)
(* The width-extending helpers.                                            *)
(***************************************************************************)
\* mutant: compares with "less than or equal"
MutULTOrEqual(lhs, rhs) == lhs.v <= rhs.v

APIntWidthExtendULT(lhs, rhs) ==
    IF lhs.w < rhs.w THEN ult(zext(lhs, rhs.w), rhs)
    ELSE IF lhs.w > rhs.w THEN ult(lhs, zext(rhs, lhs.w))
    ELSE ult(lhs, rhs)

\* mutant: adds in the width of the wider operand, without the extra bit
MutUAddNoExtend(lhs, rhs) ==
    LET maxBits == Max(lhs.w, rhs.w)
    IN  APAdd(zext(lhs, maxBits), zext(rhs, maxBits))

\* mutant: extends to one bit more than the narrower operand
MutUAddMinWidth(lhs, rhs) ==
    LET targetWidth == Min(lhs.w, rhs.w) + 1
    IN  APAdd(zext(lhs, targetWidth), zext(rhs, targetWidth))

APIntWidthExtendUAdd(lhs, rhs) ==
    LET maxBits == Max(lhs.w, rhs.w)
        targetWidth == maxBits + 1
    IN  APAdd(zext(lhs, targetWidth), zext(rhs, targetWidth))

\* mutant: multiplies in the width of the wider operand
MutUMulNoExtend(lhs, rhs) ==
    LET maxBits == Max(lhs.w, rhs.w)
    IN  APMul(zext(lhs, maxBits), zext(rhs, maxBits))

APIntWidthExtendUMul(lhs, rhs) ==
    LET targetWidth == lhs.w + rhs.w
    IN  APMul(zext(lhs, targetWidth), zext(rhs, targetWidth))

\* mutant: extends with the sign bit, the signed reading of the value
MutUSqSignExtend(i) ==
    LET ie == IF i.v >= Pow2(i.w - 1) THEN i.v - Pow2(i.w) ELSE i.v
    IN  APInt(2 * i.w, ie * ie)

\* mutant: squares with one extra bit only
MutUSqOneExtra(i) ==
    LET ie == zext(i, i.w + 1)
    IN  APMul(ie, ie)

APIntWidthExtendUSq(i) ==
    LET ie == zext(i, 2 * i.w)
    IN  APMul(ie, ie)

\* mutant: returns the rounded root without the correction
MutCeilSqrtNoCorrection(i) == APsqrt(i)

APIntCeilSqrt(i) ==
    LET res == APsqrt(i)
        resSq == APIntWidthExtendUSq(res)
    IN  IF APIntWidthExtendULT(resSq, i)
        THEN APIntWidthExtendUAdd(res, APInt(1, 1))
        ELSE res

(***************************************************************************)
(* Values of the function.  Each value has the kind of the operation that  *)
(* defines it ("BlockArgument" for a function argument), its operands, its *)
(* type (cls, element width w, number of elements n) and, for a constant,  *)
(* the bit patterns of its "value" attribute.                              *)
(***************************************************************************)
MkVal(kind, operands, cls, w, n, lit) ==
    [kind |-> kind, operands |-> operands, cls |-> cls, w |-> w, n |-> n,
     lit |-> lit]

\* the arguments of the analysed function: an encrypted integer, a tensor
\* of encrypted integers, a plaintext integer and a plaintext tensor
BlockArguments ==
    << MkVal("BlockArgument", <<>>, "eint", 0, 0, <<>>),
       MkVal("BlockArgument", <<>>, "eintTensor", 0, 3, <<>>),
       MkVal("BlockArgument", <<>>, "int", 2, 0, <<>>),
       MkVal("BlockArgument", <<>>, "intTensor", 8, 4, <<>>) >>

NumArgs == Len(BlockArguments)

\* literals of the constant operations a function is built from
CstScalars == { APInt(1, 0), APInt(2, 3), APInt(3, 5) }

CstVectors ==
    { [w |-> 2, elts |-> << >>], [w |-> 1, elts |-> <<0, 1>>],
      [w |-> 2, elts |-> <<1, 2, 3>>] }

(***************************************************************************)
(* MANPLatticeValue inside its mlir::LatticeElement: uninitialized, or     *)
(* holding an optional squared MANP.                                       *)
(***************************************************************************)
Zero1 == [w |-> 1, v |-> 0]

Uninitialized == [init |-> FALSE, has |-> FALSE, manp |-> Zero1]

MANPLatticeValue(has, manp) ==
    [init |-> TRUE, has |-> has, manp |-> IF has THEN manp ELSE Zero1]

\* mutant: seeds the encrypted integers only, not the tensors of them
MutPessimisticScalarOnly(value) ==
    IF value.kind = "BlockArgument" /\ value.cls = "eint"
    THEN MANPLatticeValue(TRUE, APInt(1, 1))
    ELSE MANPLatticeValue(FALSE, Zero1)

getPessimisticValueState(value) ==
    IF value.kind = "BlockArgument" /\ value.cls \in {"eint", "eintTensor"}
    THEN MANPLatticeValue(TRUE, APInt(1, 1))
    ELSE MANPLatticeValue(FALSE, Zero1)

NoAttr == [set |-> FALSE, val |-> Zero1]

\* the solver of one run of the pass: which run of the pass it is, where
\* the solver is ("block": walking the entry block, "worklist": popping
\* the operation worklist, "done"), the next operation of the walk over a
\* body that is already built, the operation worklist, how often
\* MANPAnalysis::visitOperation was called for each value in this run, and
\* what the run before left behind
NewSolver(run, nVals, first) ==
    [run |-> run, phase |-> "block", pc |-> NumArgs + 1, opWorklist |-> << >>,
     visits |-> [j \in 1..nVals |-> 0], first |-> first]

NoRun == [lattice |-> << >>, attr |-> << >>, diags |-> << >>, debug |-> FALSE]

NoCall == [fn |-> "none", args |-> << >>, res |-> Zero1, done |-> FALSE]

\* what a read of an empty llvm::Optional may yield once its assertion is
\* compiled out
Garbage == { APInt(1, 0), APInt(3, 6) }

\* the values operandMANPs[i]->getValue().getMANP().getValue() may return
getMANP(j) == IF lattice[j].has THEN {lattice[j].manp} ELSE Garbage

Outcome(abort, isDummy, error, norm) ==
    [abort |-> abort, isDummy |-> isDummy, error |-> error, norm |-> norm]

\* a failed assert(): abort() when assertions are compiled in
AssertFailed == Outcome(TRUE, FALSE, FALSE, Zero1)

\* mutant: a computed norm is not recorded
MutComputedDummy(norm) == Outcome(FALSE, TRUE, FALSE, norm)

Computed(norm) == Outcome(FALSE, FALSE, FALSE, norm)

\* the outcomes of a rule whose assertion `ok` guards the results `norms`;
\* with the assertion compiled out and violated the read is undefined: the
\* process may crash or go on with what it read
Asserting(ok, norms) ==
    IF ok THEN { Computed(x) : x \in norms }
    ELSE IF ~ndebug THEN { AssertFailed }
    ELSE { AssertFailed } \cup { Computed(x) : x \in norms }

(***************************************************************************)
(* The rules.                                                              *)
(***************************************************************************)
RECURSIVE Norm2SqLoop(_, _, _)
Norm2SqLoop(elts, w, accu) ==
    IF elts = << >> THEN accu
    ELSE LET valSq == APIntWidthExtendUSq(APInt(w, Head(elts)))
         IN  Norm2SqLoop(Tail(elts), w, APIntWidthExtendUAdd(accu, valSq))

\* mutant: sums the elements instead of their squares
RECURSIVE MutSumLoop(_, _, _)
MutSumLoop(elts, w, accu) ==
    IF elts = << >> THEN accu
    ELSE MutSumLoop(Tail(elts), w,
                    APIntWidthExtendUAdd(accu, APInt(w, Head(elts))))

MutDenseCstNoSquare(cstOp) == MutSumLoop(cstOp.lit, cstOp.w, APInt(1, 0))

denseCstTensorNorm2Sq(cstOp) == Norm2SqLoop(cstOp.lit, cstOp.w, APInt(1, 0))

RECURSIVE ShiftCount(_)
ShiftCount(tmp) == IF tmp \div 2 = 0 THEN 0 ELSE 1 + ShiftCount(tmp \div 2)

\* mutant: the position of the highest set bit, without the rounding
MutFloorLog2(v) == ShiftCount(v)

ceilLog2(v) ==
    LET log2 == ShiftCount(v)
        rest == v - ((v \div Pow2(log2)) % 2) * Pow2(log2)
    IN  IF rest # 0 THEN log2 + 1 ELSE log2

\* mutant: takes 2^width for the largest element, as conservativeIntNorm2Sq
MutDenseDynPow2(tTy) ==
    LET maxVal == APShl(APInt(tTy.w + 1, 1), tTy.w)
        maxValSq == APIntWidthExtendUSq(maxVal)
        nEltsAP == APInt(ceilLog2(tTy.n + 1), tTy.n)
    IN  APIntWidthExtendUMul(maxValSq, nEltsAP)

denseDynTensorNorm2Sq(tTy) ==
    LET elWidth == tTy.w
        maxVal == getMaxValue(elWidth)
        maxValSq == APIntWidthExtendUSq(maxVal)
        nElts == tTy.n
        nEltsBits == ceilLog2(nElts + 1)
        nEltsAP == APInt(nEltsBits, nElts)
    IN  APIntWidthExtendUMul(maxValSq, nEltsAP)

\* mutant: no operand is taken for a constant
MutNeverConstant(j) == FALSE

isConstantOp(j) == vals[j].kind = "Constant"

getSqMANP_Dot(op) ==
    LET enc == op.operands[1]
        pt == op.operands[2]
        norm == IF isConstantOp(pt) THEN denseCstTensorNorm2Sq(vals[pt])
                ELSE denseDynTensorNorm2Sq(vals[pt])
    IN  IF vals[enc].kind = "BlockArgument" \/ ndebug
        THEN { Computed(norm) }
        ELSE { AssertFailed }

\* mutant: the largest value itself, not its square
MutConservativeNoSquare(t) ==
    LET maxVal == APShl(APInt(t.w + 1, 1), t.w)
    IN  zext(maxVal, 2 * maxVal.w)

conservativeIntNorm2Sq(t) ==
    LET maxVal == APShl(APInt(t.w + 1, 1), t.w)
    IN  APIntWidthExtendUSq(maxVal)

\* the squared norm of the plaintext operand of add, sub and mul
plaintextNorm2Sq(j) ==
    IF isConstantOp(j)
    THEN APIntWidthExtendUSq(APInt(vals[j].w, vals[j].lit[1]))
    ELSE conservativeIntNorm2Sq(vals[j])

\* mutant: takes the conservative norm for a constant operand too
MutAddEintIntConservative(op) ==
    LET sqNorm == conservativeIntNorm2Sq(vals[op.operands[2]])
    IN  Asserting(lattice[op.operands[1]].has,
                  { APIntWidthExtendUAdd(sqNorm, eNorm) :
                        eNorm \in getMANP(op.operands[1]) })

getSqMANP_AddEintInt(op) ==
    LET sqNorm == plaintextNorm2Sq(op.operands[2])
    IN  Asserting(lattice[op.operands[1]].has,
                  { APIntWidthExtendUAdd(sqNorm, eNorm) :
                        eNorm \in getMANP(op.operands[1]) })

\* mutant: reads operand 0 twice
MutAddEintSameOperand(op) ==
    Asserting(lattice[op.operands[1]].has /\ lattice[op.operands[2]].has,
              { APIntWidthExtendUAdd(a, a) : a \in getMANP(op.operands[1]) })

getSqMANP_AddEint(op) ==
    Asserting(lattice[op.operands[1]].has /\ lattice[op.operands[2]].has,
              { APIntWidthExtendUAdd(a, b) :
                    a \in getMANP(op.operands[1]),
                    b \in getMANP(op.operands[2]) })

\* mutant: takes the operands at the positions of add_eint_int
MutSubIntEintPositions(op) ==
    LET sqNorm == plaintextNorm2Sq(op.operands[2])
    IN  Asserting(lattice[op.operands[1]].has,
                  { APIntWidthExtendUAdd(sqNorm, eNorm) :
                        eNorm \in getMANP(op.operands[1]) })

getSqMANP_SubIntEint(op) ==
    LET sqNorm == plaintextNorm2Sq(op.operands[1])
    IN  Asserting(lattice[op.operands[2]].has,
                  { APIntWidthExtendUAdd(sqNorm, eNorm) :
                        eNorm \in getMANP(op.operands[2]) })

\* mutant: adds the two norms, as the rule of add_eint_int does
MutMulEintIntAdd(op) ==
    LET sqNorm == plaintextNorm2Sq(op.operands[2])
    IN  Asserting(lattice[op.operands[1]].has,
                  { APIntWidthExtendUAdd(sqNorm, eNorm) :
                        eNorm \in getMANP(op.operands[1]) })

getSqMANP_MulEintInt(op) ==
    LET sqNorm == plaintextNorm2Sq(op.operands[2])
    IN  Asserting(lattice[op.operands[1]].has,
                  { APIntWidthExtendUMul(sqNorm, eNorm) :
                        eNorm \in getMANP(op.operands[1]) })

(***************************************************************************)
(* MANPAnalysis::visitOperation: the outcomes of the rule selection for    *)
(* `op`.  An operation of the HLFHE dialect that matches no rule emits an  *)
(* error and hits assert(false); with assertions compiled out the visit    *)
(* goes on with the default-constructed norm2SqEquiv, a 1-bit zero.        *)
(***************************************************************************)
HLFHEKinds ==
    { "Dot", "AddEintInt", "AddEint", "SubIntEint", "MulEintInt", "ZeroEint",
      "ApplyLookupTableEint", "UnknownHLFHE" }

\* mutant: a table lookup hands the bound of its operand on
MutLookupKeepsOperand(op) ==
    CASE op.kind = "Dot" -> getSqMANP_Dot(op)
      [] op.kind = "AddEintInt" -> getSqMANP_AddEintInt(op)
      [] op.kind = "AddEint" -> getSqMANP_AddEint(op)
      [] op.kind = "SubIntEint" -> getSqMANP_SubIntEint(op)
      [] op.kind = "MulEintInt" -> getSqMANP_MulEintInt(op)
      [] op.kind = "ZeroEint" -> { Computed(APInt(1, 1)) }
      [] op.kind = "ApplyLookupTableEint" ->
            { Computed(x) : x \in getMANP(op.operands[1]) }
      [] op.kind = "Constant" -> { Outcome(FALSE, TRUE, FALSE, Zero1) }
      [] op.kind \in HLFHEKinds ->
            IF ndebug THEN { Outcome(FALSE, FALSE, TRUE, Zero1) }
            ELSE { Outcome(TRUE, FALSE, TRUE, Zero1) }
      [] OTHER -> { Outcome(FALSE, TRUE, FALSE, Zero1) }

selectRule(op) ==
    CASE op.kind = "Dot" -> getSqMANP_Dot(op)
      [] op.kind = "AddEintInt" -> getSqMANP_AddEintInt(op)
      [] op.kind = "AddEint" -> getSqMANP_AddEint(op)
      [] op.kind = "SubIntEint" -> getSqMANP_SubIntEint(op)
      [] op.kind = "MulEintInt" -> getSqMANP_MulEintInt(op)
      [] op.kind \in {"ZeroEint", "ApplyLookupTableEint"} ->
            { Computed(APInt(1, 1)) }
      [] op.kind = "Constant" -> { Outcome(FALSE, TRUE, FALSE, Zero1) }
      [] op.kind \in HLFHEKinds ->
            IF ndebug THEN { Outcome(FALSE, FALSE, TRUE, Zero1) }
            ELSE { Outcome(TRUE, FALSE, TRUE, Zero1) }
      [] OTHER -> { Outcome(FALSE, TRUE, FALSE, Zero1) }

\* mlir::LatticeElement::join(rhs) on the element `cur`: an uninitialized
\* element takes rhs; otherwise MANPLatticeValue::join runs into
\* assert(false) and, with assertions compiled out, yields the empty value
latticeJoin(cur, rhs) ==
    IF ~cur.init THEN [abort |-> FALSE, val |-> rhs]
    ELSE IF ~ndebug THEN [abort |-> TRUE, val |-> cur]
    ELSE [abort |-> FALSE, val |-> MANPLatticeValue(FALSE, Zero1)]

Diag(id, sev, norm) == [op |-> id, sev |-> sev, norm |-> norm]

\* mutant: the remark of a debug run is emitted for every operation
MutRemarkForAll(id, o, joined) ==
    (IF o.error THEN << Diag(id, "error", Zero1) >> ELSE << >>)
    \o (IF ~o.abort /\ ~joined.abort /\ debug
        THEN << Diag(id, "remark", o.norm) >> ELSE << >>)

\* the diagnostics of one visit: the error of an unsupported operation,
\* then the remark of a debug run
emitted(id, o, joined) ==
    (IF o.error THEN << Diag(id, "error", Zero1) >> ELSE << >>)
    \o (IF ~o.abort /\ ~o.isDummy /\ ~joined.abort /\ debug
        THEN << Diag(id, "remark", o.norm) >> ELSE << >>)

\* the encrypted operands whose bound a rule reads are narrow enough for
\* the model's integers
Narrow(op) ==
    \A i \in 1..Len(op.operands) :
        lattice[op.operands[i]].manp.w <= MaxBits

visitOperation(op) ==
    /\ status = "running"
    /\ solver.run = 1 /\ solver.phase = "block"
    /\ Len(vals) < NumArgs + MaxOps
    /\ Narrow(op)
    /\ \E o \in selectRule(op) :
         LET id == Len(vals) + 1
             rhs == IF o.isDummy THEN MANPLatticeValue(FALSE, Zero1)
                    ELSE MANPLatticeValue(TRUE, o.norm)
             joined == IF o.abort THEN [abort |-> TRUE, val |-> Uninitialized]
                       ELSE latticeJoin(Uninitialized, rhs)
             aborted == o.abort \/ joined.abort
         IN  /\ vals' = Append(vals, op)
             /\ lattice' = Append(lattice, joined.val)
             /\ attr' = Append(attr,
                    IF aborted \/ o.isDummy THEN NoAttr
                    ELSE [set |-> TRUE, val |-> APIntCeilSqrt(o.norm)])
             /\ diags' = diags \o emitted(id, o, joined)
             /\ status' = IF aborted THEN "aborted" ELSE "running"
             /\ known' = Append(known,
                    IF aborted \/ o.isDummy THEN getPessimisticValueState(op)
                    ELSE joined.val)
             /\ solver' = [solver EXCEPT !.visits = Append(@, 1)]
    /\ UNCHANGED <<debug, ndebug, call>>

(***************************************************************************)
(* The operations a function body may continue with, by kind, typed as the *)
(* verifier of each operation demands.                                     *)
(***************************************************************************)
OfClass(c) == { j \in 1..Len(vals) : vals[j].cls = c }

\* the integer types a call may return
PlainScalarTypes == { [cls |-> "int", w |-> w, n |-> 0] : w \in {1, 3} }

ConstantOps ==
    { MkVal("Constant", << >>, "int", c.w, 0, <<c.v>>) : c \in CstScalars }
    \cup { MkVal("Constant", << >>, "intTensor", c.w, Len(c.elts), c.elts) :
             c \in CstVectors }

\* operations of other dialects: a call that returns an integer, an
\* operation on an integer or on a tensor of encrypted integers, an
\* operation that makes a tensor<3xi2> of a plaintext tensor, an extract
\* from a tensor
OtherOps ==
    { MkVal("Other", << >>, t.cls, t.w, t.n, << >>) : t \in PlainScalarTypes }
    \cup { MkVal("Other", <<j>>, vals[j].cls, vals[j].w, vals[j].n, << >>) :
             j \in OfClass("int") \cup OfClass("eintTensor") }
    \cup { MkVal("Other", <<j>>, "intTensor", 2, 3, << >>) :
             j \in OfClass("intTensor") }
    \cup { MkVal("Other", <<j>>, "eint", 0, 0, << >>) :
             j \in OfClass("eintTensor") }

Eint(kind, operands) == MkVal(kind, operands, "eint", 0, 0, << >>)

ResetOps ==
    { Eint("ZeroEint", << >>) }
    \cup { Eint("ApplyLookupTableEint", <<e, t>>) :
             e \in OfClass("eint"), t \in OfClass("intTensor") }

UnknownOps == { Eint("UnknownHLFHE", <<e>>) : e \in OfClass("eint") }

AddEintOps ==
    { Eint("AddEint", <<a, b>>) : a \in OfClass("eint"), b \in OfClass("eint") }

AddEintIntOps ==
    { Eint("AddEintInt", <<e, i>>) : e \in OfClass("eint"), i \in OfClass("int") }

SubIntEintOps ==
    { Eint("SubIntEint", <<i, e>>) : i \in OfClass("int"), e \in OfClass("eint") }

MulEintIntOps ==
    { Eint("MulEintInt", <<e, i>>) : e \in OfClass("eint"), i \in OfClass("int") }

DotOps ==
    { Eint("Dot", <<e, t>>) :
        e \in OfClass("eintTensor"), t \in OfClass("intTensor") }

CountKind(kind) == Cardinality({ j \in 1..Len(vals) : vals[j].kind = kind })

VisitConstant ==
    /\ CountKind("Constant") < MaxCsts
    /\ \E op \in ConstantOps : visitOperation(op)

VisitOther ==
    /\ CountKind("Other") < MaxOthers
    /\ \E op \in OtherOps : visitOperation(op)

VisitReset == \E op \in ResetOps : visitOperation(op)
VisitUnknown == \E op \in UnknownOps : visitOperation(op)
VisitAddEint == \E op \in AddEintOps : visitOperation(op)
VisitAddEintInt == \E op \in AddEintIntOps : visitOperation(op)
VisitSubIntEint == \E op \in SubIntEintOps : visitOperation(op)
VisitMulEintInt == \E op \in MulEintIntOps : visitOperation(op)
VisitDot == \E op \in DotOps : visitOperation(op)

(***************************************************************************)
(* A run of MANPPass::runOnFunction: the block arguments get their         *)
(* pessimistic state, then the operations are visited in program order.    *)
(***************************************************************************)
Init ==
    /\ vals = BlockArguments
    /\ lattice = [j \in 1..NumArgs |-> getPessimisticValueState(BlockArguments[j])]
    /\ attr = [j \in 1..NumArgs |-> NoAttr]
    /\ diags = << >>
    /\ status = "running"
    /\ debug \in BOOLEAN
    /\ ndebug \in BOOLEAN
    /\ call = NoCall
    /\ known = lattice
    /\ solver = NewSolver(1, NumArgs, NoRun)

Next ==
    \/ VisitConstant
    \/ VisitOther
    \/ VisitReset
    \/ VisitUnknown
    \/ VisitAddEint
    \/ VisitAddEintInt
    \/ VisitSubIntEint
    \/ VisitMulEintInt
    \/ VisitDot

Spec == Init /\ [][Next]_vars

\* the runs over the function bodies made of constants, operations of
\* other dialects and the operations that have a plaintext operand
PlaintextNext ==
    \/ VisitConstant
    \/ VisitOther
    \/ VisitAddEintInt
    \/ VisitSubIntEint
    \/ VisitMulEintInt
    \/ VisitDot

PlaintextSpec == Init /\ [][PlaintextNext]_vars

(***************************************************************************)
(* A whole run of analysis.run(func) in MANPPass::runOnFunction, as the    *)
(* mlir::ForwardDataFlowSolver of the library drives it: the walk over the *)
(* entry block in program order, then the operation worklist, which holds  *)
(* the users of every operation whose visit reported a change; and a       *)
(* second instance of the pass run on the function the first one left.     *)
(***************************************************************************)
\* the users of value j among the operations from k on, in program order,
\* each named by the value it defines: Operation::getUsers lists a user
\* once for every operand that is j
RECURSIVE Users(_, _)
Users(j, k) ==
    IF k > Len(vals) THEN << >>
    ELSE [i \in 1..Len(SelectSeq(vals[k].operands, LAMBDA x : x = j)) |-> k]
         \o Users(j, k + 1)

\* what visitUsers pushed during the walk over the block: the users of
\* every operation from j on that the analysis visited
RECURSIVE PushedFrom(_)
PushedFrom(j) ==
    IF j > Len(vals) THEN << >>
    ELSE (IF solver.visits[j] > 0 THEN Users(j, j + 1) ELSE << >>)
         \o PushedFrom(j + 1)

\* ForwardDataFlowSolver::visitOperation bails out while an operand
\* lattice is not resolved
operandsResolved(j) ==
    \A i \in 1..Len(vals[j].operands) : lattice[vals[j].operands[i]].init

\* mutant: no lattice element is ever at its fixpoint
MutNeverAtFixpoint(j) == FALSE

\* LatticeElement::isAtFixpoint: optimisticValue == knownValue
isAtFixpoint(j) == lattice[j] = known[j]

phaseAfter(worklist) == IF worklist = << >> THEN "done" ELSE "worklist"

\* MANPAnalysis::visitOperation on the operation that defines value j of a
\* body that is already built
visitOperationAt(j) ==
    \E o \in selectRule(vals[j]) :
        LET rhs == IF o.isDummy THEN MANPLatticeValue(FALSE, Zero1)
                   ELSE MANPLatticeValue(TRUE, o.norm)
            joined == IF o.abort THEN [abort |-> TRUE, val |-> lattice[j]]
                      ELSE latticeJoin(lattice[j], rhs)
            aborted == o.abort \/ joined.abort
        IN  /\ lattice' = [lattice EXCEPT ![j] = joined.val]
            /\ known' = IF aborted \/ o.isDummy THEN known
                        ELSE [known EXCEPT ![j] = joined.val]
            /\ attr' = IF aborted \/ o.isDummy THEN attr
                       ELSE [attr EXCEPT ![j] =
                                [set |-> TRUE, val |-> APIntCeilSqrt(o.norm)]]
            /\ diags' = diags \o emitted(j, o, joined)
            /\ status' = IF aborted THEN "aborted" ELSE "running"

\* the walk over the block of the first run goes on with one more
\* operation, which the function body is extended by
WalkBlock ==
    /\ Len(vals) < NumArgs + MaxBodyOps
    /\ Next

\* the walk has reached the end of the block (the terminator has no result
\* and is not handed to the analysis): solve() turns to the worklist
EndOfBlock ==
    /\ status = "running"
    /\ solver.phase = "block"
    /\ solver.run = 2 => solver.pc > Len(vals)
    /\ LET pushed == PushedFrom(NumArgs + 1)
       IN  solver' = [solver EXCEPT !.opWorklist = pushed,
                                    !.phase = phaseAfter(pushed)]
    /\ UNCHANGED <<vals, lattice, attr, diags, status, debug, ndebug, call,
                   known>>

\* solve() pops the last operation of the worklist and visits it
PopOperation ==
    /\ status = "running"
    /\ solver.phase = "worklist"
    /\ LET nextOp == solver.opWorklist[Len(solver.opWorklist)]
           rest == SubSeq(solver.opWorklist, 1, Len(solver.opWorklist) - 1)
       IN  IF ~operandsResolved(nextOp) \/ isAtFixpoint(nextOp)
           THEN /\ solver' = [solver EXCEPT !.opWorklist = rest,
                                            !.phase = phaseAfter(rest)]
                /\ UNCHANGED <<lattice, attr, diags, status, known>>
           ELSE /\ visitOperationAt(nextOp)
                /\ LET pushed == rest \o Users(nextOp, nextOp + 1)
                   IN  solver' = [solver EXCEPT
                                     !.opWorklist = pushed,
                                     !.phase = phaseAfter(pushed),
                                     !.visits[nextOp] = @ + 1]
    /\ UNCHANGED <<vals, debug, ndebug, call>>

\* a second MANPPass in the pipeline, created with a debug flag of its own:
\* runOnFunction makes a new MANPAnalysis, with no lattice element yet but
\* those of the block arguments, for the function that carries the
\* attributes of the first run
RunPassAgain ==
    /\ status = "running"
    /\ solver.run = 1 /\ solver.phase = "done"
    /\ lattice' = [j \in 1..Len(vals) |->
                     IF j <= NumArgs THEN getPessimisticValueState(vals[j])
                     ELSE Uninitialized]
    /\ known' = [j \in 1..Len(vals) |-> getPessimisticValueState(vals[j])]
    /\ debug' \in BOOLEAN
    /\ solver' = NewSolver(2, Len(vals),
                           [lattice |-> lattice, attr |-> attr,
                            diags |-> diags, debug |-> debug])
    /\ UNCHANGED <<vals, attr, diags, status, ndebug, call>>

\* the walk over the block of the second run visits the next operation
WalkBlockAgain ==
    /\ status = "running"
    /\ solver.run = 2 /\ solver.phase = "block"
    /\ solver.pc <= Len(vals)
    /\ IF ~operandsResolved(solver.pc) \/ isAtFixpoint(solver.pc)
       THEN /\ solver' = [solver EXCEPT !.pc = @ + 1]
            /\ UNCHANGED <<lattice, attr, diags, status, known>>
       ELSE /\ visitOperationAt(solver.pc)
            /\ solver' = [solver EXCEPT !.pc = @ + 1,
                                        !.visits[solver.pc] = @ + 1]
    /\ UNCHANGED <<vals, debug, ndebug, call>>

RunNext ==
    \/ WalkBlock
    \/ EndOfBlock
    \/ PopOperation
    \/ RunPassAgain
    \/ WalkBlockAgain

RunSpec == Init /\ [][RunNext]_vars

(***************************************************************************)
(* A single call of a helper function on arbitrary arguments, outside of   *)
(* any run of the pass.                                                    *)
(***************************************************************************)
\* unsigned: 32 bits, held as two halves of 16 bits so that the arithmetic
\* on widths wraps as the host's does
Half == 65536

Unsigned(hi, lo) == [hi |-> hi, lo |-> lo]

UnsignedOf(n) == Unsigned(n \div Half, n % Half)

\* std::numeric_limits<unsigned>::max()
UnsignedMax == Unsigned(Half - 1, Half - 1)

UnsignedAdd(a, b) ==
    LET lo == a.lo + b.lo
        hi == a.hi + b.hi + lo \div Half
    IN  Unsigned(hi % Half, lo % Half)

UnsignedSub(a, b) ==
    LET lo == a.lo - b.lo + Half
        hi == a.hi - b.hi + Half - (IF lo < Half THEN 1 ELSE 0)
    IN  Unsigned(hi % Half, lo % Half)

UnsignedLess(a, b) == a.hi < b.hi \/ (a.hi = b.hi /\ a.lo < b.lo)

UnsignedHalve(a) == Unsigned(a.hi \div 2, (a.hi % 2) * (Half \div 2) + a.lo \div 2)

UnsignedMaxOf(a, b) == IF UnsignedLess(a, b) THEN b ELSE a

UnsignedMinOf(a, b) == IF UnsignedLess(b, a) THEN b ELSE a

\* a helper either aborts or returns a value of the width targetWidth
WidthAborted == [abort |-> TRUE, targetWidth |-> UnsignedOf(0)]

WidthReturned(targetWidth) == [abort |-> FALSE, targetWidth |-> targetWidth]

\* assert(ok) followed by the zero extension of operands of the widths
\* operandWidths to targetWidth.  Without NDEBUG a failed assertion aborts.
\* With NDEBUG the check is absent: an extension to a narrower width is
\* outside the contract of zext, which aborts or returns, as the library was
\* built.
WidthAsserting(ok, operandWidths, targetWidth) ==
    IF ok THEN { WidthReturned(targetWidth) }
    ELSE IF ~ndebug THEN { WidthAborted }
    ELSE IF \A w \in operandWidths : ~UnsignedLess(targetWidth, w)
         THEN { WidthReturned(targetWidth) }
         ELSE { WidthAborted, WidthReturned(targetWidth) }

\* the target width of APIntWidthExtendUAdd for operands of the widths
\* lhsWidth and rhsWidth
UAddTargetWidth(lhsWidth, rhsWidth) ==
    LET maxBits == UnsignedMaxOf(lhsWidth, rhsWidth)
        ok == UnsignedLess(UnsignedOf(1), UnsignedSub(UnsignedMax, maxBits))
        targetWidth == UnsignedAdd(maxBits, UnsignedOf(1))
    IN  WidthAsserting(ok, {lhsWidth, rhsWidth}, targetWidth)

UMulTargetWidth(lhsWidth, rhsWidth) ==
    LET ok == UnsignedLess(UnsignedMinOf(lhsWidth, rhsWidth),
                           UnsignedSub(UnsignedMax,
                                       UnsignedMaxOf(lhsWidth, rhsWidth)))
        targetWidth == UnsignedAdd(lhsWidth, rhsWidth)
    IN  WidthAsserting(ok, {lhsWidth, rhsWidth}, targetWidth)

USqTargetWidth(width) ==
    LET ok == UnsignedLess(width, UnsignedHalve(UnsignedMax))
        targetWidth == UnsignedAdd(width, width)
    IN  WidthAsserting(ok, {width}, targetWidth)

\* widths near 0, near 2^31 and near the largest unsigned value
Widths ==
    { UnsignedOf(k) : k \in 1..MaxNear }
    \cup { UnsignedSub(Unsigned(Half \div 2, 0), UnsignedOf(k)) : k \in 0..MaxNear }
    \cup { UnsignedAdd(Unsigned(Half \div 2, 0), UnsignedOf(k)) : k \in 0..MaxNear }
    \cup { UnsignedSub(UnsignedMax, UnsignedOf(k)) : k \in 0..MaxNear }

APInts(maxBits) ==
    UNION { { [w |-> w, v |-> v] : v \in 0..(Pow2(w) - 1) } : w \in 1..maxBits }

Call(fn, args) == [fn |-> fn, args |-> args, res |-> Zero1, done |-> FALSE]

\* the values a lattice element may be joined with, and the elements
LatticeValues ==
    { MANPLatticeValue(FALSE, Zero1) }
    \cup { MANPLatticeValue(TRUE, a) : a \in APInts(2) }

LatticeElements == { Uninitialized } \cup LatticeValues

CallInit ==
    /\ vals = BlockArguments
    /\ lattice = [j \in 1..NumArgs |-> getPessimisticValueState(BlockArguments[j])]
    /\ attr = [j \in 1..NumArgs |-> NoAttr]
    /\ diags = << >>
    /\ status = "running"
    /\ debug = FALSE
    /\ ndebug \in BOOLEAN
    /\ call \in { Call("APIntCeilSqrt", <<a>>) : a \in APInts(MaxArgBits) }
                \cup { Call("join", <<cur, rhs>>) :
                         cur \in LatticeElements, rhs \in LatticeValues }
                \cup { Call(fn, <<a, b>>) :
                         fn \in {"APIntWidthExtendUAdd", "APIntWidthExtendUMul"},
                         a \in APInts(MaxPairBits), b \in APInts(MaxPairBits) }
                \cup { Call("APIntWidthExtendUSq", <<a>>) :
                         a \in APInts(MaxPairBits) }
                \cup { Call("nEltsAP", <<n>>) : n \in 0..MaxCount }
                \cup { Call(fn, <<lw, rw>>) :
                         fn \in {"UAdd targetWidth", "UMul targetWidth"},
                         lw \in Widths, rw \in Widths }
                \cup { Call("USq targetWidth", <<w>>) : w \in Widths }
    /\ known = lattice
    /\ solver = NewSolver(1, NumArgs, NoRun)

CallCeilSqrt ==
    /\ call.fn = "APIntCeilSqrt"
    /\ ~call.done
    /\ call' = [call EXCEPT !.res = APIntCeilSqrt(call.args[1]), !.done = TRUE]
    /\ UNCHANGED <<vals, lattice, attr, diags, status, debug, ndebug, known,
                   solver>>

\* latticeRes.join(rhs) on the lattice element args[1]
CallJoin ==
    /\ call.fn = "join"
    /\ ~call.done
    /\ call' = [call EXCEPT !.res = latticeJoin(call.args[1], call.args[2]),
                            !.done = TRUE]
    /\ UNCHANGED <<vals, lattice, attr, diags, status, debug, ndebug, known,
                   solver>>

CallUAdd ==
    /\ call.fn = "APIntWidthExtendUAdd"
    /\ ~call.done
    /\ call' = [call EXCEPT
                   !.res = APIntWidthExtendUAdd(call.args[1], call.args[2]),
                   !.done = TRUE]
    /\ UNCHANGED <<vals, lattice, attr, diags, status, debug, ndebug, known,
                   solver>>

CallUMul ==
    /\ call.fn = "APIntWidthExtendUMul"
    /\ ~call.done
    /\ call' = [call EXCEPT
                   !.res = APIntWidthExtendUMul(call.args[1], call.args[2]),
                   !.done = TRUE]
    /\ UNCHANGED <<vals, lattice, attr, diags, status, debug, ndebug, known,
                   solver>>

CallUSq ==
    /\ call.fn = "APIntWidthExtendUSq"
    /\ ~call.done
    /\ call' = [call EXCEPT !.res = APIntWidthExtendUSq(call.args[1]),
                            !.done = TRUE]
    /\ UNCHANGED <<vals, lattice, attr, diags, status, debug, ndebug, known,
                   solver>>

\* the element count nElts = args[1] of a tensor type, stored in an APInt of
\* nEltsBits = ceilLog2(nElts + 1) bits
CallNElts ==
    /\ call.fn = "nEltsAP"
    /\ ~call.done
    /\ LET nElts == call.args[1]
           nEltsBits == ceilLog2(nElts + 1)
       IN  call' = [call EXCEPT !.res = APInt(nEltsBits, nElts),
                                !.done = TRUE]
    /\ UNCHANGED <<vals, lattice, attr, diags, status, debug, ndebug, known,
                   solver>>

\* the width part of a call of one of the three helpers on operands of the
\* widths args
CallTargetWidth ==
    /\ call.fn \in {"UAdd targetWidth", "UMul targetWidth", "USq targetWidth"}
    /\ ~call.done
    /\ \E o \in CASE call.fn = "UAdd targetWidth" ->
                     UAddTargetWidth(call.args[1], call.args[2])
                   [] call.fn = "UMul targetWidth" ->
                     UMulTargetWidth(call.args[1], call.args[2])
                   [] OTHER -> USqTargetWidth(call.args[1]) :
          call' = [call EXCEPT !.res = o, !.done = TRUE]
    /\ UNCHANGED <<vals, lattice, attr, diags, status, debug, ndebug, known,
                   solver>>

CallNext ==
    \/ CallTargetWidth
    \/ CallCeilSqrt
    \/ CallJoin
    \/ CallUAdd
    \/ CallUMul
    \/ CallUSq
    \/ CallNElts

CallSpec == CallInit /\ [][CallNext]_vars

(***************************************************************************)
(* Properties.                                                             *)
(***************************************************************************)
Ops == (NumArgs + 1)..Len(vals)

TrackedKinds ==
    { "Dot", "AddEintInt", "AddEint", "SubIntEint", "MulEintInt", "ZeroEint",
      "ApplyLookupTableEint" }

IntKinds == { "AddEintInt", "SubIntEint", "MulEintInt" }

PlainOperand(j) ==
    IF vals[j].kind = "SubIntEint" THEN vals[j].operands[1]
    ELSE vals[j].operands[2]

EncOperand(j) ==
    IF vals[j].kind = "SubIntEint" THEN vals[j].operands[2]
    ELSE vals[j].operands[1]

Bound(j) == lattice[j].manp.v

Sq(x) == x * x

RECURSIVE DependsOn(_, _)
DependsOn(k, j) ==
    \E i \in 1..Len(vals[k].operands) :
        \/ vals[k].operands[i] = j
        \/ vals[k].operands[i] > j /\ DependsOn(vals[k].operands[i], j)

HasError(j) ==
    \E d \in 1..Len(diags) : diags[d].op = j /\ diags[d].sev = "error"

\* r is the least natural number whose square is at least n
IsCeilSqrt(r, n) == r * r >= n /\ (r = 0 \/ (r - 1) * (r - 1) < n)

\* C1: an operation of the HLFHE dialect that matches no rule gets an
\* error diagnostic and aborts the analysis; neither it nor any operation
\* that depends on it has a squared norm bound or a MANP attribute.
C1_UnsupportedAborts ==
    \A j \in Ops :
        vals[j].kind = "UnknownHLFHE" =>
            /\ status = "aborted"
            /\ HasError(j)
            /\ ~lattice[j].has /\ ~attr[j].set
            /\ \A k \in Ops :
                 DependsOn(k, j) => ~lattice[k].has /\ ~attr[k].set

\* C2: for add_eint_int, sub_int_eint and mul_eint_int with a plaintext
\* operand of width w that is not a constant, the plaintext contribution
\* to the recorded bound is exactly (2^w - 1)^2.
C2_DynamicIsMaxValueSq ==
    \A j \in Ops :
        ( /\ vals[j].kind \in IntKinds
          /\ lattice[j].has
          /\ lattice[EncOperand(j)].has
          /\ ~isConstantOp(PlainOperand(j)) ) =>
            LET c == Sq(Pow2(vals[PlainOperand(j)].w) - 1)
                p == Bound(EncOperand(j))
            IN  Bound(j) = IF vals[j].kind = "MulEintInt" THEN c * p ELSE c + p

(***************************************************************************)
(* The rules over the natural numbers: the bound of value j computed from  *)
(* the graph alone, with no bit width anywhere.                            *)
(***************************************************************************)
RECURSIVE SumSq(_)
SumSq(elts) == IF elts = << >> THEN 0 ELSE Sq(Head(elts)) + SumSq(Tail(elts))

NatPlain(j) ==
    IF isConstantOp(j) THEN Sq(vals[j].lit[1]) ELSE Sq(Pow2(vals[j].w))

RECURSIVE NatBound(_)
NatBound(j) ==
    LET op == vals[j]
    IN  CASE op.kind = "AddEint" ->
                NatBound(op.operands[1]) + NatBound(op.operands[2])
          [] op.kind \in {"AddEintInt", "SubIntEint"} ->
                NatPlain(PlainOperand(j)) + NatBound(EncOperand(j))
          [] op.kind = "MulEintInt" ->
                NatPlain(PlainOperand(j)) * NatBound(EncOperand(j))
          [] op.kind = "Dot" ->
                IF isConstantOp(op.operands[2])
                THEN SumSq(vals[op.operands[2]].lit)
                ELSE vals[op.operands[2]].n
                       * Sq(Pow2(vals[op.operands[2]].w) - 1)
          [] OTHER -> 1

\* value j and every bound its rule read come from rules applied to
\* recorded bounds, back to the block arguments
RECURSIVE FromRules(_)
FromRules(j) ==
    /\ lattice[j].has
    /\ vals[j].kind \in TrackedKinds \cup {"BlockArgument"}
    /\ vals[j].kind = "AddEint" =>
         FromRules(vals[j].operands[1]) /\ FromRules(vals[j].operands[2])
    /\ vals[j].kind \in IntKinds => FromRules(EncOperand(j))

\* C3: after any sequence of rule applications every recorded squared
\* norm bound equals what the same rules give over the natural numbers, and
\* is below 2^width: nothing is truncated or wrapped.
C3_BoundsAreExact ==
    \A j \in 1..Len(vals) :
        FromRules(j) =>
            /\ Bound(j) = NatBound(j)
            /\ lattice[j].manp.w >= 31 \/ Bound(j) < Pow2(lattice[j].manp.w)

\* a chain of three rules whose last result no longer fits the width of
\* either of its operands
C3_Witness ==
    \E j \in Ops :
        /\ FromRules(j)
        /\ vals[j].kind \in {"AddEint", "MulEintInt"}
        /\ EncOperand(j) \in Ops
        /\ vals[EncOperand(j)].kind \in IntKinds
        /\ EncOperand(EncOperand(j)) \in Ops
        /\ Bound(j) >= Pow2(lattice[EncOperand(j)].manp.w)

\* C4: r = ceilSqrt(v) satisfies r^2 >= v and, for v > 0, (r - 1)^2 < v;
\* ceilSqrt(0) = 0 and ceilSqrt(1) = 1; the result is the unwrapped value.
C4_CeilSqrt ==
    (call.fn = "APIntCeilSqrt" /\ call.done) =>
        LET v == call.args[1].v
            r == call.res.v
        IN  /\ IsCeilSqrt(r, v)
            /\ v = 0 => r = 0
            /\ v = 1 => r = 1
            /\ r < Pow2(call.res.w)

\* the correction step ran: the rounded root of 17 is 4, the result 5
C4_Witness ==
    /\ call.fn = "APIntCeilSqrt" /\ call.done
    /\ call.args[1] = [w |-> 5, v |-> 17]
    /\ call.res = [w |-> 6, v |-> 5]

\* C5: in every state each visited operation of a tracked kind has a MANP
\* attribute, the ceiling square root of its recorded bound, and an
\* operation has the attribute exactly when it has the bound (both are
\* written by the same step).
C5_AttrIsCeilSqrtOfBound ==
    \A j \in Ops :
        /\ lattice[j].has <=> attr[j].set
        /\ (vals[j].kind \in TrackedKinds /\ lattice[j].init) =>
              lattice[j].has /\ attr[j].set
        /\ attr[j].set => IsCeilSqrt(attr[j].val.v, Bound(j))

\* a bound that is no perfect square, with its attribute
C5_Witness ==
    \E j \in Ops :
        /\ vals[j].kind = "AddEintInt"
        /\ Bound(j) = 17
        /\ attr[j].set /\ attr[j].val.v = 5

\* C6: add_eint of operands with recorded bounds p and q records exactly
\* p + q, whatever the widths p and q are stored in.
C6_AddEintIsSum ==
    \A j \in Ops :
        ( /\ vals[j].kind = "AddEint"
          /\ lattice[j].has
          /\ lattice[vals[j].operands[1]].has
          /\ lattice[vals[j].operands[2]].has ) =>
            Bound(j) = Bound(vals[j].operands[1]) + Bound(vals[j].operands[2])

\* operands stored in different widths, with different bounds
C6_Witness ==
    \E j \in Ops :
        /\ vals[j].kind = "AddEint" /\ lattice[j].has
        /\ lattice[vals[j].operands[1]].has
        /\ lattice[vals[j].operands[2]].has
        /\ lattice[vals[j].operands[1]].manp.w
             > lattice[vals[j].operands[2]].manp.w
        /\ Bound(vals[j].operands[1]) > Bound(vals[j].operands[2])
        /\ Bound(j) > Bound(vals[j].operands[1])

\* C7: add_eint_int of x with recorded bound p and the constant k records
\* exactly k^2 + p; for a block argument x and k = 5 the bound is 26 and
\* the MANP is 6.
C7_AddEintIntConstant ==
    \A j \in Ops :
        ( /\ vals[j].kind = "AddEintInt"
          /\ lattice[j].has
          /\ lattice[vals[j].operands[1]].has
          /\ isConstantOp(vals[j].operands[2]) ) =>
            LET k == vals[vals[j].operands[2]].lit[1]
            IN  /\ Bound(j) = Sq(k) + Bound(vals[j].operands[1])
                /\ (k = 5 /\ vals[vals[j].operands[1]].kind = "BlockArgument") =>
                      Bound(j) = 26 /\ attr[j].set /\ attr[j].val.v = 6

C7_Witness ==
    \E j \in Ops :
        /\ vals[j].kind = "AddEintInt" /\ lattice[j].has
        /\ vals[vals[j].operands[1]].kind = "BlockArgument"
        /\ isConstantOp(vals[j].operands[2])
        /\ vals[vals[j].operands[2]].lit = <<5>>
        /\ Bound(j) = 26

\* C8: mul_eint_int of x with recorded bound p and the constant k (the
\* unsigned value of its bit pattern) records exactly k^2 * p.
C8_MulEintIntConstant ==
    \A j \in Ops :
        ( /\ vals[j].kind = "MulEintInt"
          /\ lattice[j].has
          /\ lattice[vals[j].operands[1]].has
          /\ isConstantOp(vals[j].operands[2]) ) =>
            Bound(j) = Sq(vals[vals[j].operands[2]].lit[1])
                         * Bound(vals[j].operands[1])

\* a constant above 1 times a bound above 1
C8_Witness ==
    \E j \in Ops :
        /\ vals[j].kind = "MulEintInt" /\ lattice[j].has
        /\ isConstantOp(vals[j].operands[2])
        /\ vals[vals[j].operands[2]].lit = <<3>>
        /\ lattice[vals[j].operands[1]].has
        /\ Bound(vals[j].operands[1]) > 1
        /\ Bound(j) = 9 * Bound(vals[j].operands[1])

C10_DotConstant ==
    \A j \in Ops :
        ( /\ vals[j].kind = "Dot"
          /\ lattice[j].init
          /\ isConstantOp(vals[j].operands[2]) ) =>
            /\ lattice[j].has
            /\ Bound(j) = SumSq(vals[vals[j].operands[2]].lit)
            /\ vals[vals[j].operands[2]].lit = <<1, 2, 3>> =>
                  Bound(j) = 14 /\ attr[j].set /\ attr[j].val.v = 4

\* the encrypted operand is the result of another operation and has no
\* bound of its own
C10_Witness ==
    \E j \in Ops :
        /\ vals[j].kind = "Dot" /\ lattice[j].has
        /\ vals[j].operands[1] \in Ops
        /\ ~lattice[vals[j].operands[1]].has
        /\ vals[vals[j].operands[2]].lit = <<1, 2, 3>>
        /\ Bound(j) = 14
        /\ attr[j].val.v = 4

\* C11: a Dot with a plaintext vector that is no constant, of n elements
\* of width w, records exactly n * (2^w - 1)^2 and gets the ceiling square
\* root of it as MANP; for n = 4 and w = 8 the bound is 260100.
C11_DotDynamic ==
    \A j \in Ops :
        ( /\ vals[j].kind = "Dot"
          /\ lattice[j].init
          /\ ~isConstantOp(vals[j].operands[2]) ) =>
            LET tTy == vals[vals[j].operands[2]]
            IN  /\ lattice[j].has
                /\ Bound(j) = tTy.n * Sq(Pow2(tTy.w) - 1)
                /\ attr[j].set
                /\ IsCeilSqrt(attr[j].val.v, Bound(j))
                /\ (tTy.n = 4 /\ tTy.w = 8) => Bound(j) = 260100

\* the Dot of the two tensor arguments, the plaintext one a tensor<4xi8>
C11_Witness ==
    \E j \in Ops :
        /\ vals[j].kind = "Dot"
        /\ vals[vals[j].operands[1]].kind = "BlockArgument"
        /\ vals[vals[j].operands[2]].kind = "BlockArgument"
        /\ vals[vals[j].operands[2]].n = 4
        /\ vals[vals[j].operands[2]].w = 8
        /\ Bound(j) = 260100
        /\ attr[j].set /\ attr[j].val.v = 510

\* C12: in every state, from the first on, each block argument that is an
\* encrypted integer or a tensor of encrypted integers has the squared
\* bound 1; a block argument of plaintext type has no bound, and neither
\* has the result of an operation that the run has not visited yet.
C12_ArgumentsSeeded ==
    /\ \A j \in 1..NumArgs :
          IF vals[j].cls \in {"eint", "eintTensor"}
          THEN lattice[j].init /\ lattice[j].has /\ Bound(j) = 1
          ELSE ~lattice[j].has
    /\ \A j \in Ops : solver.visits[j] = 0 => ~lattice[j].has

\* the second run is about to walk a body whose first operation carries
\* the attribute of the first run
C12_Witness ==
    /\ solver.run = 2 /\ solver.pc = NumArgs + 1
    /\ Len(vals) > NumArgs
    /\ solver.visits[NumArgs + 1] = 0
    /\ attr[NumArgs + 1].set
    /\ ~lattice[NumArgs + 1].has
    /\ lattice[1].has /\ lattice[2].has /\ ~lattice[3].has /\ ~lattice[4].has

\* C13: a visited zero or table lookup has the squared bound 1 and the
\* MANP 1, whatever the bounds of its operands are.
C13_ResetIsOne ==
    \A j \in Ops :
        ( /\ vals[j].kind \in {"ZeroEint", "ApplyLookupTableEint"}
          /\ solver.visits[j] > 0 ) =>
            /\ lattice[j].has /\ Bound(j) = 1
            /\ attr[j].set /\ attr[j].val.v = 1

\* a table lookup on a value whose bound is 16 or more
C13_Witness ==
    \E j \in Ops :
        /\ vals[j].kind = "ApplyLookupTableEint"
        /\ solver.visits[j] > 0
        /\ lattice[vals[j].operands[1]].has
        /\ Bound(vals[j].operands[1]) >= 16
        /\ Bound(j) = 1
        /\ attr[j].val.v = 1

\* this step is a call of MANPAnalysis::visitOperation for value j
VisitedNow(j) ==
    /\ solver'.run = solver.run
    /\ solver'.visits[j] > (IF j <= Len(vals) THEN solver.visits[j] ELSE 0)

\* C14: the visit of a constant operation or of an operation of another
\* dialect records no bound and no MANP attribute for it, emits nothing,
\* does not abort and leaves the bound and the attribute of every other
\* value as they were.
C14_DummyChangesNothing ==
    [][ \A j \in 1..Len(vals') :
          (VisitedNow(j) /\ vals'[j].kind \in {"Constant", "Other"}) =>
              /\ ~lattice'[j].has
              /\ ~attr'[j].set
              /\ diags' = diags
              /\ status' = "running"
              /\ \A k \in 1..Len(vals) :
                    k # j => lattice'[k] = lattice[k] /\ attr'[k] = attr[k]
      ]_vars

\* a debug run has visited such an operation after one with a bound, an
\* attribute and a remark
C14_Witness ==
    \E j \in Ops :
        /\ vals[j].kind \in {"Constant", "Other"}
        /\ solver.visits[j] > 0
        /\ j - 1 \in Ops
        /\ lattice[j - 1].has /\ attr[j - 1].set
        /\ debug
        /\ Len(diags) = 1 /\ diags[1].op = j - 1
        /\ ~lattice[j].has /\ ~attr[j].set
        /\ status = "running"

CombiningKinds == {"AddEint", "AddEintInt", "SubIntEint", "MulEintInt"}

\* the encrypted operands of the combining operation op
EncOperandsOf(op) ==
    CASE op.kind = "AddEint" -> {op.operands[1], op.operands[2]}
      [] op.kind = "SubIntEint" -> {op.operands[2]}
      [] OTHER -> {op.operands[1]}

EncOperands(j) == EncOperandsOf(vals[j])

\* C15: the visit of add_eint, add_eint_int, sub_int_eint or mul_eint_int
\* with an encrypted operand that has no bound aborts the analysis and
\* records neither a bound nor a MANP attribute for the operation.
C15_MissingBoundAborts ==
    \A j \in Ops :
        ( /\ vals[j].kind \in CombiningKinds
          /\ solver.visits[j] > 0
          /\ \E e \in EncOperands(j) : ~lattice[e].has ) =>
            /\ status = "aborted"
            /\ ~lattice[j].has
            /\ ~attr[j].set

BoundsAreWriteOnce ==
    [][ \A j \in 1..Len(vals) :
          (lattice[j].has /\ solver'.run = solver.run) =>
              lattice'[j] = lattice[j]
      ]_vars

\* C17: a recorded squared bound is never changed: joining a second value
\* into a lattice element that holds a bound aborts and leaves the bound
\* as it is.
C17_JoinIntoBoundAborts ==
    (call.fn = "join" /\ call.done /\ call.args[1].has) =>
        /\ call.res.abort
        /\ call.res.val = call.args[1]

Terminated == status = "aborted" \/ solver.phase = "done"

PhaseRank(phase) ==
    CASE phase = "block" -> 2 [] phase = "worklist" -> 1 [] OTHER -> 0

\* a step of a run brings the run nearer to its end: the solver goes on
\* to its next phase, or the walk moves on by one operation of the finite
\* body, or the worklist gets shorter
RunProgress ==
    \/ solver'.run > solver.run
    \/ PhaseRank(solver'.phase) < PhaseRank(solver.phase)
    \/ /\ solver'.phase = "block" /\ solver.phase = "block"
       /\ IF solver.run = 1 THEN Len(vals') = Len(vals) + 1
          ELSE solver'.pc = solver.pc + 1
    \/ /\ solver'.phase = "worklist" /\ solver.phase = "worklist"
       /\ Len(solver'.opWorklist) < Len(solver.opWorklist)

\* the enabling condition of WalkBlockAgain: its guard, and a rule outcome
\* for the operation if the analysis is called; every other conjunct of
\* the action sets a primed variable
WalkAgainEnabled ==
    /\ status = "running"
    /\ solver.run = 2 /\ solver.phase = "block"
    /\ solver.pc <= Len(vals)
    /\ \/ ~operandsResolved(solver.pc)
       \/ isAtFixpoint(solver.pc)
       \/ selectRule(vals[solver.pc]) # {}

\* the solver can take a step
CanStep ==
    \/ ENABLED EndOfBlock
    \/ ENABLED PopOperation
    \/ ENABLED RunPassAgain
    \/ WalkAgainEnabled

\* C18: a run ends, by completion or by an abort, and calls visitOperation
\* exactly once for each operation of the body, although every such call
\* reports a change: a run that is not over can take a step, every step
\* brings it nearer to its end, no operation is visited twice, and when
\* the walk over the block is over every operation has been visited.
C18_EachOperationOnce ==
    /\ [](\A j \in Ops :
            /\ solver.visits[j] <= 1
            /\ (status = "running" /\ solver.phase # "block") =>
                  solver.visits[j] = 1)
    /\ [](Terminated \/ CanStep)
    /\ [][RunProgress]_vars

\* a run is over in which a constant was visited and then its user, which
\* the solver took from the worklist again
C18_Witness ==
    /\ solver.phase = "done" /\ status = "running"
    /\ Len(vals) = NumArgs + 2
    /\ vals[NumArgs + 1].kind = "Constant"
    /\ \E i \in 1..Len(vals[NumArgs + 2].operands) :
          vals[NumArgs + 2].operands[i] = NumArgs + 1
    /\ solver.visits[NumArgs + 1] = 1 /\ solver.visits[NumArgs + 2] = 1

\* C19: the squared bound recorded for add_eint, add_eint_int,
\* sub_int_eint or mul_eint_int is at least the squared bound of each of
\* its encrypted operands, whatever the plaintext operand is.
C19_BoundsMonotone ==
    \A j \in Ops :
        (vals[j].kind \in CombiningKinds /\ lattice[j].has) =>
            \A e \in EncOperands(j) :
                lattice[e].has => Bound(j) >= Bound(e)

\* the plaintext operand of the multiplication j is the constant 0
TimesZero(j) ==
    /\ vals[j].kind = "MulEintInt"
    /\ isConstantOp(PlainOperand(j))
    /\ vals[PlainOperand(j)].lit = <<0>>

\* C19, amended: the same, but for a mul_eint_int by the constant 0,
\* whose squared bound is 0.
C19_MonotoneButTimesZero ==
    \A j \in Ops :
        (vals[j].kind \in CombiningKinds /\ lattice[j].has) =>
            IF TimesZero(j) THEN Bound(j) = 0
            ELSE \A e \in EncOperands(j) :
                    lattice[e].has => Bound(j) >= Bound(e)

\* a multiplication of a bound above 1 by a plaintext that is no constant
C19_Witness ==
    \E j \in Ops :
        /\ vals[j].kind = "MulEintInt" /\ lattice[j].has
        /\ ~isConstantOp(PlainOperand(j))
        /\ lattice[EncOperand(j)].has
        /\ Bound(EncOperand(j)) > 1
        /\ Bound(j) > Bound(EncOperand(j))

\* C20: a second run of the pass, on the function that carries the MANP
\* attributes of the first run, ends as the first run did, with the same
\* squared bound and the same MANP attribute for every value.
C20_SecondRunIdentical ==
    (solver.run = 2 /\ Terminated) =>
        /\ status = "running"
        /\ attr = solver.first.attr
        /\ lattice = solver.first.lattice


\* C21: the width-extending addition of a (wa bits) and b (wb bits) has
\* width max(wa, wb) + 1 and the value a + b without wrap-around, and is the
\* same, in value and width, with its operands exchanged.
C21_UAddExact ==
    (call.fn = "APIntWidthExtendUAdd" /\ call.done) =>
        LET a == call.args[1]
            b == call.args[2]
        IN  /\ call.res.w = Max(a.w, b.w) + 1
            /\ call.res.v = a.v + b.v
            /\ call.res = APIntWidthExtendUAdd(b, a)

\* the widest operands at their largest values, and operands of unequal
\* widths: 7 + 1 in 4 bits
C21_Witness ==
    /\ call.fn = "APIntWidthExtendUAdd" /\ call.done
    /\ call.args = << [w |-> 3, v |-> 7], [w |-> 1, v |-> 1] >>
    /\ call.res = [w |-> 4, v |-> 8]

\* C22: the width-extending multiplication has width wa + wb and the value
\* a * b without wrap-around and is commutative; the square of a has width
\* 2 * wa and equals the multiplication of a with itself.
C22_UMulUSqExact ==
    /\ (call.fn = "APIntWidthExtendUMul" /\ call.done) =>
          LET a == call.args[1]
              b == call.args[2]
          IN  /\ call.res.w = a.w + b.w
              /\ call.res.v = a.v * b.v
              /\ call.res = APIntWidthExtendUMul(b, a)
    /\ (call.fn = "APIntWidthExtendUSq" /\ call.done) =>
          LET a == call.args[1]
          IN  /\ call.res.w = 2 * a.w
              /\ call.res.v = a.v * a.v
              /\ call.res = APIntWidthExtendUMul(a, a)

\* the square of the largest 3-bit value: 49 in 6 bits
C22_Witness ==
    /\ call.fn = "APIntWidthExtendUSq" /\ call.done
    /\ call.args = << [w |-> 3, v |-> 7] >>
    /\ call.res = [w |-> 6, v |-> 49]

\* C24: for every element count n the width b = ceilLog2(n + 1) is the
\* smallest with n < 2^b: n is stored in b bits unchanged, and for n >= 1,
\* 2^(b - 1) <= n.
C24_CountWidthMinimal ==
    (call.fn = "nEltsAP" /\ call.done) =>
        LET n == call.args[1]
            b == call.res.w
        IN  /\ n < Pow2(b)
            /\ call.res.v = n
            /\ n >= 1 => Pow2(b - 1) <= n
            /\ \A c \in 0..(b - 1) : n >= Pow2(c)

\* a count that is a power of two, and one that is one less
C24_Witness ==
    /\ call.fn = "nEltsAP" /\ call.done
    /\ \/ call.args = <<4>> /\ call.res = [w |-> 3, v |-> 4]
       \/ call.args = <<31>> /\ call.res = [w |-> 5, v |-> 31]


\* the width a result needs: the sum of the widths a and b plus extra, as a
\* number above the range of unsigned (top > 0) or within it
NeededWidth(a, b, extra) ==
    LET lo == a.lo + b.lo + extra
        hi == a.hi + b.hi + lo \div Half
    IN  [top |-> hi \div Half, hi |-> hi % Half, lo |-> lo % Half]

NeededWidthOfCall ==
    LET a == call.args[1]
    IN  CASE call.fn = "UAdd targetWidth" ->
               NeededWidth(UnsignedMaxOf(a, call.args[2]), UnsignedOf(0), 1)
          [] call.fn = "UMul targetWidth" -> NeededWidth(a, call.args[2], 0)
          [] OTHER -> NeededWidth(a, a, 0)

\* C23: add, multiply and square abort whenever the width their result needs
\* (max(wa, wb) + 1, wa + wb, 2 * w) is above the range of unsigned, and a
\* call that returns has computed exactly that width, never a wrapped one.
C23_WidthOverflowAborts ==
    (/\ call.fn \in {"UAdd targetWidth", "UMul targetWidth", "USq targetWidth"}
     /\ call.done) =>
        LET needed == NeededWidthOfCall
        IN  /\ needed.top > 0 => call.res.abort
            /\ ~call.res.abort =>
                  /\ needed.top = 0
                  /\ call.res.targetWidth = Unsigned(needed.hi, needed.lo)


\* the diagnostics of the second run
SecondRunDiags == SubSeq(diags, Len(solver.first.diags) + 1, Len(diags))

\* the squared bounds that the trace ds shows for the operation j
RemarksFor(ds, j) ==
    SelectSeq(ds, LAMBDA d : d.op = j /\ d.sev = "remark")

\* C25: the run with the debug flag and the run without it record the same
\* squared bounds and MANP attributes and fail on the same operation; the
\* trace of the debug run holds exactly one record, the squared bound, for
\* every visited operation of a tracked kind and none for any other, and
\* the other run has no such record.
C25_DebugOnlyAddsTrace ==
    (solver.run = 2 /\ Terminated /\ debug # solver.first.debug) =>
        LET traced == IF debug THEN SecondRunDiags ELSE solver.first.diags
            silent == IF debug THEN solver.first.diags ELSE SecondRunDiags
        IN  /\ status = "running"
            /\ lattice = solver.first.lattice
            /\ attr = solver.first.attr
            /\ \A j \in Ops :
                  /\ RemarksFor(silent, j) = << >>
                  /\ RemarksFor(traced, j) =
                        IF vals[j].kind \in TrackedKinds
                        THEN << Diag(j, "remark", lattice[j].manp) >>
                        ELSE << >>


\* the squared bound that the rule of operation j gives for a plaintext
\* operand of the type of j's that is no constant, with the bound of j's
\* encrypted operand
DynamicCase(j) ==
    LET t == vals[PlainOperand(j)]
        eNorm == lattice[EncOperand(j)].manp
    IN  CASE vals[j].kind = "Dot" -> denseDynTensorNorm2Sq(t)
          [] vals[j].kind = "MulEintInt" ->
               APIntWidthExtendUMul(conservativeIntNorm2Sq(t), eNorm)
          [] OTHER -> APIntWidthExtendUAdd(conservativeIntNorm2Sq(t), eNorm)

\* C26: the bound recorded for add_eint_int, sub_int_eint or mul_eint_int
\* with a constant plaintext operand is at most the bound the rule gives
\* for a plaintext operand of the same width that is no constant, with the
\* same encrypted operand bound; the bound of a Dot with a constant vector
\* of n elements of width w is at most that of a Dot with a vector of the
\* same type that is no constant.
C26_ConstantAtMostConservative ==
    \A j \in Ops :
        ( /\ vals[j].kind \in IntKinds \cup {"Dot"}
          /\ lattice[j].has
          /\ vals[j].kind \in IntKinds => lattice[EncOperand(j)].has ) =>
            IF isConstantOp(PlainOperand(j))
            THEN Bound(j) <= DynamicCase(j).v
            ELSE Bound(j) = DynamicCase(j).v

\* the constant with the largest value of its width stays below the
\* conservative case
C26_Witness ==
    \E j \in Ops :
        /\ vals[j].kind = "MulEintInt" /\ lattice[j].has
        /\ isConstantOp(PlainOperand(j))
        /\ vals[PlainOperand(j)].lit = <<3>> /\ vals[PlainOperand(j)].w = 2
        /\ lattice[EncOperand(j)].has
        /\ Bound(j) = 9 * Bound(EncOperand(j))
        /\ DynamicCase(j).v = 16 * Bound(EncOperand(j))


\* C27: a Dot has a bound only if its operand 0 is a block argument; the
\* visit of a Dot whose encrypted operand is the result of another
\* operation aborts the analysis and records no bound and no attribute.
C27_DotOnlyOnArguments ==
    \A j \in Ops :
        vals[j].kind = "Dot" =>
            /\ lattice[j].has => vals[vals[j].operands[1]].kind = "BlockArgument"
            /\ (solver.visits[j] > 0 /\ vals[j].operands[1] \in Ops) =>
                  /\ status = "aborted"
                  /\ ~lattice[j].has
                  /\ ~attr[j].set


\* the Dot j has a constant vector that is empty or holds zeros only
DotZeroVector(j) ==
    /\ vals[j].kind = "Dot"
    /\ isConstantOp(PlainOperand(j))
    /\ \A i \in 1..Len(vals[PlainOperand(j)].lit) :
          vals[PlainOperand(j)].lit[i] = 0

\* C28: in a run over a graph without a mul_eint_int by the constant 0 and
\* without a Dot whose constant vector is empty or all zeros, every
\* recorded squared bound is at least 1 and every MANP attribute is at
\* least 1.
C28_BoundsAtLeastOne ==
    (\A j \in Ops : ~TimesZero(j) /\ ~DotZeroVector(j)) =>
        \A j \in 1..Len(vals) :
            /\ lattice[j].has => Bound(j) >= 1
            /\ attr[j].set => attr[j].val.v >= 1


\* the value of the w-bit pattern u read as a signed number
SignedReading(u, w) == IF u >= Pow2(w - 1) THEN u - Pow2(w) ELSE u

\* what a constant of the bit pattern u in w bits contributes: the square
\* of 2^w - k if it reads as -k, of its value otherwise
Contribution(u, w) ==
    LET r == SignedReading(u, w)
    IN  IF r < 0 THEN Sq(Pow2(w) + r) ELSE Sq(r)

RECURSIVE SumContributions(_, _)
SumContributions(elts, w) ==
    IF elts = << >> THEN 0
    ELSE Contribution(Head(elts), w) + SumContributions(Tail(elts), w)

\* C29: a constant plaintext operand of width w enters every rule as the
\* unsigned value u in 0..2^w - 1 of its bit pattern and contributes u^2:
\* a constant that reads as -k contributes (2^w - k)^2, and every
\* contribution is below 2^(2w).
C29_ConstantsAreUnsigned ==
    \A j \in Ops :
        ( /\ vals[j].kind \in IntKinds \cup {"Dot"}
          /\ lattice[j].has
          /\ vals[j].kind \in IntKinds => lattice[EncOperand(j)].has
          /\ isConstantOp(PlainOperand(j)) ) =>
            LET c == vals[PlainOperand(j)]
                e == Bound(EncOperand(j))
            IN  /\ \A i \in 1..Len(c.lit) :
                      /\ c.lit[i] \in 0..(Pow2(c.w) - 1)
                      /\ Contribution(c.lit[i], c.w) = Sq(c.lit[i])
                      /\ Contribution(c.lit[i], c.w) < Pow2(2 * c.w)
                /\ Bound(j) =
                      CASE vals[j].kind = "Dot" -> SumContributions(c.lit, c.w)
                        [] vals[j].kind = "MulEintInt" ->
                             Contribution(c.lit[1], c.w) * e
                        [] OTHER -> Contribution(c.lit[1], c.w) + e

\* the 3-bit constant 5, which reads as -3, contributes 25 and not 9
C29_Witness ==
    \E j \in Ops :
        /\ vals[j].kind = "SubIntEint" /\ lattice[j].has
        /\ isConstantOp(PlainOperand(j))
        /\ vals[PlainOperand(j)].w = 3
        /\ vals[PlainOperand(j)].lit = <<5>>
        /\ SignedReading(5, 3) = -3
        /\ lattice[EncOperand(j)].has
        /\ Bound(j) = 25 + Bound(EncOperand(j))


\* the squared bound of operation j if the literal of the constant
\* operation c is its plaintext operand
ConstantCase(j, c) ==
    LET e == Bound(EncOperand(j))
    IN  CASE vals[j].kind = "Dot" -> SumSq(vals[c].lit)
          [] vals[j].kind = "MulEintInt" -> Sq(vals[c].lit[1]) * e
          [] OTHER -> Sq(vals[c].lit[1]) + e

\* C30: a plaintext operand is taken for a compile-time constant exactly
\* if the operation that produces it is a constant operation: then the
\* rule uses its literal; a plaintext block argument and the result of any
\* other operation, also of one applied to a constant, get the
\* conservative bound of their type.
C30_ConstantIffDefinedByConstant ==
    \A j \in Ops :
        ( /\ vals[j].kind \in IntKinds \cup {"Dot"}
          /\ lattice[j].has
          /\ vals[j].kind \in IntKinds => lattice[EncOperand(j)].has ) =>
            LET p == PlainOperand(j)
            IN  IF vals[p].kind = "Constant"
                THEN Bound(j) = ConstantCase(j, p)
                ELSE /\ vals[p].kind \in {"BlockArgument", "Other"}
                     /\ Bound(j) = DynamicCase(j).v

\* the plaintext operand is the result of an operation applied to the
\* constant 3 of 2 bits: the bound is the conservative 16 + 1, not 9 + 1
C30_Witness ==
    \E j \in Ops :
        /\ vals[j].kind = "AddEintInt" /\ lattice[j].has
        /\ vals[EncOperand(j)].kind = "BlockArgument"
        /\ vals[PlainOperand(j)].kind = "Other"
        /\ vals[PlainOperand(j)].operands # << >>
        /\ vals[vals[PlainOperand(j)].operands[1]].kind = "Constant"
        /\ vals[vals[PlainOperand(j)].operands[1]].lit = <<3>>
        /\ Bound(j) = 17
        /\ ConstantCase(j, vals[PlainOperand(j)].operands[1]) = 10

====
